---- MODULE Spec2Model ----
(***************************************************************************)
(* A model of mdng (src/mdng/__init__.py): the endian-aware primitive      *)
(* codec, the TIFF tag directory (ImageFileDirectory) with its load and    *)
(* save, and the M9 DNG layout engine (M9DNG) that rewrites a file with    *)
(* three directories and two strips.                                       *)
(*                                                                         *)
(* A byte is an integer in 0..255 and a byte string a sequence of bytes.   *)
(* A stream is a record [buf, pos]: the bytes of the file and the current  *)
(* position.  An operation that can raise returns a record whose field     *)
(* err names the exception ("" when it returns normally).                  *)
(***************************************************************************)
EXTENDS Integers, Sequences, FiniteSets, TLC

VARIABLES
    \* the codec: the input drawn, the encoded bytes, the decoded value
    cpc, cin, cenc, cdec,
    \* a directory and a stream: the directory being built or edited, the
    \* stream, the position at which the directory was last saved or loaded,
    \* the result of the last operation, the directory loaded back
    pc, ifd, fp, start, ret, ifd2,
    \* the layout engine: the source stream, the M9DNG object, the
    \* destination stream, the result of the last operation
    dpc, src, dng, out, dret

vars == <<cpc, cin, cenc, cdec, pc, ifd, fp, start, ret, ifd2, dpc, src, dng, out, dret>>

codecvars == <<cpc, cin, cenc, cdec>>

ifdvars == <<pc, ifd, fp, start, ret, ifd2>>

dngvars == <<dpc, src, dng, out, dret>>

(***************************************************************************)
(* Bounds of the model.                                                    *)
(***************************************************************************)
\* the directory is saved at a stream position in 0..MaxStart
MaxStart == 1
\* at most MaxTags tags are put into a directory before it is saved
MaxTags == 2
\* strip lengths of the input files are in 0..MaxStrip
MaxStrip == 2

(***************************************************************************)
(* Sequence helpers.                                                       *)
(***************************************************************************)
Min(a, b) == IF a < b THEN a ELSE b

Max(a, b) == IF a < b THEN b ELSE a

\* n zero bytes
Zeros(n) == [i \in 1..n |-> 0]

\* a Python slice c[a:b] with 0 <= a (0-based, b exclusive, clipped to the end)
Slice(c, a, b) == SubSeq(c, a + 1, Min(b, Len(c)))

\* the one element of a singleton set; Only({e(x) : x \in {v}}) is e(v) with
\* v evaluated once
Only(S) == CHOOSE x \in S : TRUE

RECURSIVE Concat(_)
Concat(ss) == IF ss = <<>> THEN <<>> ELSE Head(ss) \o Concat(Tail(ss))

\* the elements of a finite set of integers in ascending order (list.sort)
RECURSIVE SortedSeq(_)
SortedSeq(S) ==
    IF S = {} THEN <<>>
    ELSE LET m == CHOOSE x \in S : \A y \in S : x <= y
         IN  <<m>> \o SortedSeq(S \ {m})

(***************************************************************************)
(* Results of operations that may raise.                                   *)
(***************************************************************************)
Ok(v) == [err |-> "", val |-> v]

Raise(e) == [err |-> e, val |-> <<>>]

(***************************************************************************)
(* struct.pack / struct.unpack of unsigned and signed integers.            *)
(* endian is "<" (little) or ">" (big).                                    *)
(***************************************************************************)
\* the w bytes of the unsigned integer i, least significant first
RECURSIVE LittleBytes(_, _)
LittleBytes(i, w) ==
    IF w = 0 THEN <<>> ELSE <<i % 256>> \o LittleBytes(i \div 256, w - 1)

Reverse(s) == [i \in 1..Len(s) |-> s[Len(s) + 1 - i]]

\* the unsigned integer of little-endian bytes
RECURSIVE LittleValue(_)
LittleValue(c) ==
    IF c = <<>> THEN 0 ELSE Head(c) + 256 * LittleValue(Tail(c))

\* 2^(8w-1) - 1, the largest signed integer of w bytes
MaxSigned(w) == IF w = 1 THEN 127 ELSE IF w = 2 THEN 32767 ELSE 2147483647

\* the largest unsigned integer of w bytes the model holds: the model's
\* integers end at 2^31 - 1, so 32-bit unsigned values are kept below 2^31
MaxUnsigned(w) == IF w = 1 THEN 255 ELSE IF w = 2 THEN 65535 ELSE 2147483647

\* struct.pack of one unsigned integer of w bytes (in range)
PackU(endian, w, i) ==
    IF endian = "<" THEN LittleBytes(i, w) ELSE Reverse(LittleBytes(i, w))

\* two's complement of a negative integer: the bytes of i + 2^(8w-1), with
\* the sign bit set in the most significant byte
SignedLittle(i, w) ==
    IF i >= 0 THEN LittleBytes(i, w)
    ELSE LET c == LittleBytes((i + MaxSigned(w)) + 1, w)
         IN  SubSeq(c, 1, w - 1) \o <<c[w] + 128>>

\* struct.pack of one signed integer of w bytes
PackS(endian, w, i) ==
    IF endian = "<" THEN SignedLittle(i, w) ELSE Reverse(SignedLittle(i, w))

\* struct.unpack of one unsigned integer from exactly w bytes
UnpackU(endian, w, c) ==
    IF endian = "<" THEN LittleValue(c) ELSE LittleValue(Reverse(c))

SignedValue(c, w) ==
    IF c[w] < 128 THEN LittleValue(c)
    ELSE (LittleValue(SubSeq(c, 1, w - 1) \o <<c[w] - 128>>) - MaxSigned(w)) - 1

UnpackS(endian, w, c) ==
    IF endian = "<" THEN SignedValue(c, w) ELSE SignedValue(Reverse(c), w)

\* struct.pack("%s%d<fmt>" % (endian, len(values)), *values): raises when a
\* value is out of the format's range
PackAll(endian, w, signed, values) ==
    LET lo == IF signed THEN (0 - MaxSigned(w)) - 1 ELSE 0
        hi == IF signed THEN MaxSigned(w) ELSE MaxUnsigned(w)
    IN  IF \E k \in 1..Len(values) : values[k] < lo \/ values[k] > hi
        THEN Raise("struct.error")
        ELSE Ok(Concat([k \in 1..Len(values) |->
                 IF signed THEN PackS(endian, w, values[k])
                 ELSE PackU(endian, w, values[k])]))

\* struct.unpack("%s%d<fmt>" % (endian, len(data) / w), data): raises unless
\* len(data) is exactly (len(data) / w) * w
UnpackAll(endian, w, signed, data) ==
    LET n == Len(data) \div w
    IN  IF n * w # Len(data) THEN Raise("struct.error")
        ELSE Ok([k \in 1..n |->
                 LET c == SubSeq(data, (k - 1) * w + 1, k * w)
                 IN  IF signed THEN UnpackS(endian, w, c)
                     ELSE UnpackU(endian, w, c)])

ol16(i) == PackU("<", 2, i)

ol32(i) == PackU("<", 4, i)

ob16(i) == PackU(">", 2, i)

ob32(i) == PackU(">", 4, i)

\* struct.unpack("<H", c[o:o+2])[0]
il16(c, o) ==
    LET s == Slice(c, o, o + 2)
    IN  IF Len(s) # 2 THEN Raise("struct.error") ELSE Ok(UnpackU("<", 2, s))

\* struct.unpack("<L", c[o:o+4])[0]
il32(c, o) ==
    LET s == Slice(c, o, o + 4)
    IN  IF Len(s) # 4 THEN Raise("struct.error") ELSE Ok(UnpackU("<", 4, s))

\* struct.unpack(">H", c[o:o+2])[0]
ib16(c, o) ==
    LET s == Slice(c, o, o + 2)
    IN  IF Len(s) # 2 THEN Raise("struct.error") ELSE Ok(UnpackU(">", 2, s))

\* struct.unpack(">L", c[o:o+2])[0]: the slice is two bytes long
ib32(c, o) ==
    LET s == Slice(c, o, o + 2)
    IN  IF Len(s) # 4 THEN Raise("struct.error") ELSE Ok(UnpackU(">", 4, s))

II == "II"

MM == "MM"

\* the byte-order marker as bytes: "II" is 73 73, "MM" is 77 77
PrefixBytes(prefix) == IF prefix = II THEN <<73, 73>> ELSE <<77, 77>>

\* self.endian, self.o16, self.o32, self.i16, self.i32 of a prefix
EndianOf(prefix) == IF prefix = MM THEN ">" ELSE "<"

o16(prefix, i) == IF prefix = MM THEN ob16(i) ELSE ol16(i)

o32(prefix, i) == IF prefix = MM THEN ob32(i) ELSE ol32(i)

i16(prefix, c, o) == IF prefix = MM THEN ib16(c, o) ELSE il16(c, o)

i32(prefix, c, o) == IF prefix = MM THEN ib32(c, o) ELSE il32(c, o)

STRIPOFFSETS == 273

STRIPBYTECOUNTS == 279

SUBIFDS == 330

EXIFIFD == 34665

XMP == 700

(***************************************************************************)
(* The stream: read, write, seek, tell.                                    *)
(***************************************************************************)
Stream(buf, pos) == [buf |-> buf, pos |-> pos]

Seek(f, o) == [f EXCEPT !.pos = o]

Tell(f) == f.pos

\* fp.read(n): the bytes read (fewer at the end of the file)
ReadData(f, n) == Slice(f.buf, f.pos, f.pos + n)

\* the stream after fp.read(n)
ReadAdv(f, n) == [f EXCEPT !.pos = f.pos + Len(ReadData(f, n))]

\* fp.write(data): overwrites and extends; a write past the end fills the gap
\* with zero bytes; writing nothing changes nothing
Write(f, data) ==
    IF data = <<>> THEN f
    ELSE Only({ [buf |-> SubSeq(b0, 1, f.pos) \o data
                         \o SubSeq(b0, f.pos + Len(data) + 1, Len(b0)),
                 pos |-> f.pos + Len(data)] :
                b0 \in {IF Len(f.buf) < f.pos
                        THEN f.buf \o Zeros(f.pos - Len(f.buf)) ELSE f.buf} })

(***************************************************************************)
(* Decoded values.  A decoded value is [kind, items]: kind "tuple" for a   *)
(* tuple of integers, "pairs" for a tuple of (numerator, denominator)      *)
(* pairs, "words" for a tuple of floats (kept as their bit patterns) and   *)
(* "str" for a byte string.                                                *)
(***************************************************************************)
Tuple(items) == [kind |-> "tuple", items |-> items]

Str(items) == [kind |-> "str", items |-> items]

Pairs(items) == [kind |-> "pairs", items |-> items]

Words(items) == [kind |-> "words", items |-> items]

\* Python's == on two decoded values
SameValue(a, b) == a.kind = b.kind /\ a.items = b.items

(***************************************************************************)
(* Load primitives.                                                        *)
(***************************************************************************)
load_unsigned_byte(endian, data) == Ok(Tuple(data))

load_string(endian, data) == Ok(Str(data))

load_unsigned_short(endian, data) ==
    LET l == UnpackAll(endian, 2, FALSE, data)
    IN  IF l.err # "" THEN l ELSE Ok(Tuple(l.val))

load_unsigned_long(endian, data) ==
    LET l == UnpackAll(endian, 4, FALSE, data)
    IN  IF l.err # "" THEN l ELSE Ok(Tuple(l.val))

\* tuple((n, d) for n, d in zip(l[:-1], l[1:]))
ZipPairs(l) == [k \in 1..(Len(l) - 1) |-> <<l[k], l[k + 1]>>]

load_unsigned_rational(endian, data) ==
    LET l == UnpackAll(endian, 4, FALSE, data)
    IN  IF l.err # "" THEN l ELSE Ok(Pairs(ZipPairs(l.val)))

load_signed_byte(endian, data) ==
    LET l == UnpackAll(endian, 1, TRUE, data)
    IN  IF l.err # "" THEN l ELSE Ok(Tuple(l.val))

load_undefined(endian, data) == Ok(Str(data))

load_signed_short(endian, data) ==
    LET l == UnpackAll(endian, 2, TRUE, data)
    IN  IF l.err # "" THEN l ELSE Ok(Tuple(l.val))

load_signed_long(endian, data) ==
    LET l == UnpackAll(endian, 4, TRUE, data)
    IN  IF l.err # "" THEN l ELSE Ok(Tuple(l.val))

load_signed_rational(endian, data) ==
    LET l == UnpackAll(endian, 4, TRUE, data)
    IN  IF l.err # "" THEN l ELSE Ok(Pairs(ZipPairs(l.val)))

\* a float is kept as the bytes of its IEEE encoding, in file order
FloatWords(w, data) ==
    IF (Len(data) \div w) * w # Len(data) THEN Raise("struct.error")
    ELSE Ok(Words([k \in 1..(Len(data) \div w) |->
                      SubSeq(data, (k - 1) * w + 1, k * w)]))

load_float(endian, data) == FloatWords(4, data)

load_double(endian, data) == FloatWords(8, data)

\* the body names load_unsigned_long, which is no global name
load_ifds(endian, data) == Raise("NameError")

\* load_dispatch[typ][0]: the width of one element
load_dispatch_size ==
    [t \in 1..13 |->
        CASE t \in {1, 2, 6, 7} -> 1
          [] t \in {3, 8} -> 2
          [] t \in {4, 9, 11, 13} -> 4
          [] OTHER -> 8]

\* load_dispatch[typ][1](self, data)
load_dispatch(typ, endian, data) ==
    CASE typ = 1 -> load_unsigned_byte(endian, data)
      [] typ = 2 -> load_string(endian, data)
      [] typ = 3 -> load_unsigned_short(endian, data)
      [] typ = 4 -> load_unsigned_long(endian, data)
      [] typ = 5 -> load_unsigned_rational(endian, data)
      [] typ = 6 -> load_signed_byte(endian, data)
      [] typ = 7 -> load_undefined(endian, data)
      [] typ = 8 -> load_signed_short(endian, data)
      [] typ = 9 -> load_signed_long(endian, data)
      [] typ = 10 -> load_signed_rational(endian, data)
      [] typ = 11 -> load_float(endian, data)
      [] typ = 12 -> load_double(endian, data)
      [] typ = 13 -> load_ifds(endian, data)
      [] OTHER -> Raise("KeyError")

(***************************************************************************)
(* Store primitives.  The values given to a numeric type are a tuple of    *)
(* integers, those given to types 2 and 7 a byte string.                   *)
(***************************************************************************)
unknown(endian, value) == Raise("RuntimeError")

store_unsigned_byte(endian, value) == PackAll(endian, 1, FALSE, value.items)

store_string(endian, value) == Ok(value.items)

store_unsigned_short(endian, value) == PackAll(endian, 2, FALSE, value.items)

store_unsigned_long(endian, value) == PackAll(endian, 4, FALSE, value.items)

store_signed_byte(endian, value) == PackAll(endian, 1, TRUE, value.items)

store_undefined(endian, value) == Ok(value.items)

store_signed_short(endian, value) == PackAll(endian, 2, TRUE, value.items)

store_signed_long(endian, value) == PackAll(endian, 4, TRUE, value.items)

store_float(endian, value) == Ok(Concat(value.items))

store_double(endian, value) == Ok(Concat(value.items))

\* the body names store_unsigned_long, which is no global name
store_ifds(endian, value) == Raise("NameError")

\* store_dispatch[typ](self, value)
store_dispatch(typ, endian, value) ==
    CASE typ = 1 -> store_unsigned_byte(endian, value)
      [] typ = 2 -> store_string(endian, value)
      [] typ = 3 -> store_unsigned_short(endian, value)
      [] typ = 4 -> store_unsigned_long(endian, value)
      [] typ = 5 -> unknown(endian, value)
      [] typ = 6 -> store_signed_byte(endian, value)
      [] typ = 7 -> store_undefined(endian, value)
      [] typ = 8 -> store_signed_short(endian, value)
      [] typ = 9 -> store_signed_long(endian, value)
      [] typ = 10 -> unknown(endian, value)
      [] typ = 11 -> store_float(endian, value)
      [] typ = 12 -> store_double(endian, value)
      [] typ = 13 -> store_ifds(endian, value)
      [] OTHER -> Raise("KeyError")

(***************************************************************************)
(* ImageFileDirectory: [prefix, tagdata, tagtype, next].  tagdata and      *)
(* tagtype are functions on the tags they hold.                            *)
(***************************************************************************)
\* self.next = None
None == -1

\* d[k] = v on a dict
Put(f, k, v) == [x \in (DOMAIN f) \cup {k} |-> IF x = k THEN v ELSE f[x]]

reset(d) == [prefix |-> d.prefix, tagdata |-> <<>>, tagtype |-> <<>>, next |-> None]

\* ImageFileDirectory(prefix), prefix the first two bytes of a header
ImageFileDirectory(prefix) ==
    IF prefix \in {MM, II}
    THEN Ok(reset([prefix |-> prefix]))
    ELSE Raise("SyntaxError")

keys(d) == DOMAIN d.tagdata

\* self[tag]
getitem(d, tag) ==
    IF tag \notin DOMAIN d.tagtype \/ tag \notin DOMAIN d.tagdata
    THEN Raise("KeyError")
    ELSE load_dispatch(d.tagtype[tag], EndianOf(d.prefix), d.tagdata[tag])

\* self[tag] = value: the result is [err, ifd]
setitem(d, tag, value) ==
    IF value.kind \notin {"tuple", "str"} THEN [err |-> "ValueError", ifd |-> d]
    ELSE IF tag \notin DOMAIN d.tagtype THEN [err |-> "KeyError", ifd |-> d]
    ELSE LET b == store_dispatch(d.tagtype[tag], EndianOf(d.prefix), value)
         IN  IF b.err # "" THEN [err |-> b.err, ifd |-> d]
             ELSE [err |-> "", ifd |-> [d EXCEPT !.tagdata = Put(@, tag, b.val)]]

(***************************************************************************)
(* ImageFileDirectory.load.  The result is [err, ifd, fp].                 *)
(***************************************************************************)
\* the tag of a 12-byte record decoded: its data expanded, the directory
\* with the tag stored, and the error of the debug line's repr(self[tag])
load_store(d, f1, tag, typ, n, raw) ==
    Only({ Only({ [err |-> IF size <= 64 THEN getitem(d1, tag).err ELSE "",
                   ifd |-> d1, fp |-> f1] :
                  d1 \in {[d EXCEPT !.tagdata = Put(@, tag, data),
                                    !.tagtype = Put(@, tag, typ)]} }) :
           size \in {load_dispatch_size[typ] * n},
           data \in {IF load_dispatch_size[typ] * n > 4
                     THEN ReadData(Seek(f1, UnpackU(EndianOf(d.prefix), 4, raw)),
                                   load_dispatch_size[typ] * n)
                     ELSE IF load_dispatch_size[typ] * n < 4
                     THEN SubSeq(raw, 1, load_dispatch_size[typ] * n)
                     ELSE raw} })

\* one pass of the loop body: a 12-byte record
load_entry(d, f) ==
    Only({ IF Len(rec) # 12 THEN [err |-> "struct.error", ifd |-> d, fp |-> f1]
           ELSE IF UnpackU(e, 2, SubSeq(rec, 3, 4)) \notin DOMAIN load_dispatch_size
           THEN [err |-> "", ifd |-> d, fp |-> f1]   \* ignore unsupported type
           ELSE load_store(d, f1, UnpackU(e, 2, SubSeq(rec, 1, 2)),
                           UnpackU(e, 2, SubSeq(rec, 3, 4)),
                           UnpackU(e, 4, SubSeq(rec, 5, 8)), SubSeq(rec, 9, 12)) :
           rec \in {ReadData(f, 12)}, f1 \in {ReadAdv(f, 12)},
           e \in {EndianOf(d.prefix)} })

RECURSIVE load_entries(_, _, _)
load_entries(d, f, count) ==
    IF count = 0 THEN [err |-> "", ifd |-> d, fp |-> f]
    ELSE Only({ IF r.err # "" THEN r ELSE load_entries(r.ifd, r.fp, count - 1) :
                r \in {load_entry(d, f)} })

\* the fix of the XMP tag's type after the loop
fix_xmp(d) ==
    IF XMP \in DOMAIN d.tagtype
    THEN [d EXCEPT !.tagtype = Put(@, XMP, 1)] ELSE d

\* the end of load: the XMP fix and the next-directory pointer
load_next(r) ==
    Only({ IF nx.err # "" THEN [err |-> nx.err, ifd |-> d2, fp |-> f2]
           ELSE [err |-> "", ifd |-> [d2 EXCEPT !.next = nx.val], fp |-> f2] :
           d2 \in {fix_xmp(r.ifd)},
           nx \in {i32(r.ifd.prefix, ReadData(r.fp, 4), 0)},
           f2 \in {ReadAdv(r.fp, 4)} })

load(d0, f0) ==
    Only({ IF c.err # "" THEN [err |-> c.err, ifd |-> d, fp |-> f1]
           ELSE Only({ IF r.err # "" THEN r ELSE load_next(r) :
                       r \in {load_entries(d, f1, c.val)} }) :
           d \in {reset(d0)},
           c \in {i16(d0.prefix, ReadData(f0, 2), 0)},
           f1 \in {ReadAdv(f0, 2)} })

(***************************************************************************)
(* ImageFileDirectory.save.  The result is [err, fp, ret, at]: ret is the  *)
(* returned offset and at[tag] the stream position at which pass 3 wrote   *)
(* the first byte of the tag's external payload.                           *)
(***************************************************************************)
\* the word padding of the running offset in pass 1
pad_offset(offset) == IF offset % 2 = 1 THEN offset + 1 ELSE offset

\* pass 1, one tag: the entry (tag, typ, n, value, data) and the offset after
save_entry(prefix, tag, typ, data, offset) ==
    Only({ IF size = 4
           THEN [entry |-> <<tag, typ, n, data, <<>> >>, offset |-> offset]
           ELSE IF size < 4
           THEN [entry |-> <<tag, typ, n, data \o Zeros(4 - size), <<>> >>,
                 offset |-> offset]
           ELSE [entry |-> <<tag, typ, n, o32(prefix, offset), data>>,
                 offset |-> pad_offset(offset + size)] :
           size \in {Len(data)},
           n \in {Len(data) \div load_dispatch_size[typ]} })

\* the error of the debug line of pass 1, which formats repr(self[tag])
\* unless the value is a table
save_debug(d, tag) ==
    IF Len(d.tagdata[tag]) > 64 /\ d.tagtype[tag] \in {1, 2, 7} THEN ""
    ELSE getitem(d, tag).err

\* pass 1: the list of (tag, typ, n, value, data) and the final offset
RECURSIVE save_pass1(_, _, _, _)
save_pass1(d, tags, offset, directory) ==
    IF tags = <<>> THEN [err |-> "", directory |-> directory, offset |-> offset]
    ELSE IF Head(tags) \notin DOMAIN d.tagtype
            \/ d.tagtype[Head(tags)] \notin DOMAIN load_dispatch_size
    THEN [err |-> "KeyError", directory |-> directory, offset |-> offset]
    ELSE Only({ IF err # ""
                THEN [err |-> err, directory |-> directory, offset |-> offset]
                ELSE Only({ save_pass1(d, Tail(tags), r.offset,
                                       Append(directory, r.entry)) :
                            r \in {save_entry(d.prefix, Head(tags),
                                       d.tagtype[Head(tags)],
                                       d.tagdata[Head(tags)], offset)} }) :
                err \in {save_debug(d, Head(tags))} })

\* pass 2: the 12-byte records
RECURSIVE save_pass2(_, _, _)
save_pass2(prefix, directory, f) ==
    IF directory = <<>> THEN f
    ELSE Only({ save_pass2(prefix, Tail(directory), f1) :
                f1 \in {Write(f, o16(prefix, Head(directory)[1])
                                 \o o16(prefix, Head(directory)[2])
                                 \o o32(prefix, Head(directory)[3])
                                 \o Head(directory)[4])} })

\* the pad byte pass 3 writes after a payload
pad_data(data) == IF Len(data) % 2 = 1 THEN <<0>> ELSE <<>>

\* pass 3: the external payloads, each with its pad byte
RECURSIVE save_pass3(_, _, _)
save_pass3(directory, f, at) ==
    IF directory = <<>> THEN [fp |-> f, at |-> at]
    ELSE Only({ save_pass3(Tail(directory), f1, at1) :
                f1 \in {Write(Write(f, Head(directory)[5]),
                              pad_data(Head(directory)[5]))},
                at1 \in {IF Head(directory)[5] = <<>> THEN at
                         ELSE Put(at, Head(directory)[1], Tell(f))} })

save(d, f0) ==
    Only({ Only({ IF p1.err # ""
                  THEN [err |-> p1.err, fp |-> f1, ret |-> None, at |-> <<>>]
                  ELSE Only({ [err |-> "", fp |-> p3.fp, ret |-> p1.offset,
                               at |-> p3.at] :
                              p3 \in {save_pass3(p1.directory,
                                        Write(save_pass2(d.prefix, p1.directory, f1),
                                              <<0, 0, 0, 0>>),
                                        <<>>)} }) :
                  p1 \in {save_pass1(d, tags, Tell(f1) + Len(tags) * 12 + 4, <<>>)} }) :
           tags \in {SortedSeq(DOMAIN d.tagdata)},
           f1 \in {Write(f0, o16(d.prefix, Cardinality(DOMAIN d.tagdata)))} })

(***************************************************************************)
(* The codec as a state machine: a value is encoded as __setitem__ does    *)
(* (store_dispatch) or a payload is read from a file, and is then decoded  *)
(* as __getitem__ does (load_dispatch).                                    *)
(***************************************************************************)
\* values of valid shape for a type with an encoder
ValuesOf(typ) ==
    CASE typ = 1 -> {Tuple(<<7>>), Tuple(<<0, 255, 3, 4>>), Tuple(<<1, 2, 3, 4, 5>>)}
      [] typ \in {2, 7} -> {Str(<<97, 98, 0>>), Str(<<97, 98, 99, 100, 0>>),
                            Str(<<97, 98, 99, 100, 101, 0>>)}
      [] typ = 3 -> {Tuple(<<258>>), Tuple(<<1, 65535>>), Tuple(<<1, 2, 3>>)}
      [] typ \in {4, 13} -> {Tuple(<<1000>>), Tuple(<<16909060, 84281096>>)}
      [] typ = 6 -> {Tuple(<<-1>>), Tuple(<<-128, 127, 0, 1, 2>>)}
      [] typ = 8 -> {Tuple(<<-2>>), Tuple(<<-32768, 32767, 258>>)}
      [] typ = 9 -> {Tuple(<<-2>>), Tuple(<<-2147483647, 16909060>>)}
      [] OTHER -> {}

\* rational values: the pairs a payload of n elements stands for
RationalsOf(typ) ==
    IF typ = 5
    THEN {Pairs(<< <<1, 2>> >>), Pairs(<< <<1, 2>>, <<3, 4>> >>),
          Pairs(<< <<1, 256>>, <<3, 4>>, <<2147483647, 6>> >>)}
    ELSE {Pairs(<< <<-1, 2>> >>), Pairs(<< <<-1, 2>>, <<3, -4>> >>),
          Pairs(<< <<1, 256>>, <<-3, 4>>, <<5, 6>> >>)}

\* the on-disk payload of rational pairs: numerator then denominator of each
RationalPayload(typ, endian, value) ==
    PackAll(endian, 4, typ = 10,
        Concat([k \in 1..Len(value.items) |-> value.items[k]]))

EncodableTypes == {1, 2, 3, 4, 6, 7, 8, 9, 13}

CodecInit ==
    /\ cpc = "input"
    /\ \E t \in EncodableTypes \cup {5, 10}, e \in {"<", ">"} :
         \E v \in ValuesOf(t) \cup (IF t \in {5, 10} THEN RationalsOf(t) ELSE {}) :
            cin = [typ |-> t, endian |-> e, value |-> v]
    /\ cenc = Raise("")
    /\ cdec = Raise("")

\* store_dispatch[typ](self, value), as __setitem__ calls it
Encode ==
    /\ cpc = "input"
    /\ cin.typ \in EncodableTypes
    /\ cenc' = store_dispatch(cin.typ, cin.endian, cin.value)
    /\ cpc' = IF cenc'.err = "" THEN "encoded" ELSE "raised"
    /\ UNCHANGED <<cin, cdec>>

\* the payload of a rational tag as load reads it from the file
ReadPayload ==
    /\ cpc = "input"
    /\ cin.typ \in {5, 10}
    /\ cenc' = RationalPayload(cin.typ, cin.endian, cin.value)
    /\ cpc' = "encoded"
    /\ UNCHANGED <<cin, cdec>>

\* load_dispatch[typ][1](self, data), as __getitem__ calls it
Decode ==
    /\ cpc = "encoded"
    /\ cdec' = load_dispatch(cin.typ, cin.endian, cenc.val)
    /\ cpc' = IF cdec'.err = "" THEN "decoded" ELSE "raised"
    /\ UNCHANGED <<cin, cenc>>

CodecIdle ==
    /\ cpc = "idle" /\ cin = Raise("") /\ cenc = Raise("") /\ cdec = Raise("")

(***************************************************************************)
(* A directory and a stream as a state machine.  A directory is made for   *)
(* a byte order; it is either filled by assignment and saved at the        *)
(* stream's position, or loaded from an input file, edited and saved; the  *)
(* saved directory is loaded back from the offset it was saved at.         *)
(***************************************************************************)
\* the tags and field types given to a directory by assignment
BuildTags == {STRIPOFFSETS, XMP, EXIFIFD}

BuildTypes == {1, 2, 3, 4, 7, 9, 13}

\* a 12-byte record of an input file
Record(prefix, tag, typ, n, raw) ==
    o16(prefix, tag) \o o16(prefix, typ) \o o32(prefix, n) \o raw

\* the records of the input files: lists of (tag, typ, n, value field)
InputRecords ==
    LET so == <<STRIPOFFSETS, 4, 1, <<1, 2, 3, 4>> >>
        un == <<305, 99, 1, <<9, 9, 9, 9>> >>
        x7 == <<XMP, 7, 2, <<60, 62, 0, 0>> >>
        x2 == <<XMP, 2, 2, <<60, 0, 0, 0>> >>
        x1 == <<XMP, 1, 4, <<60, 62, 60, 62>> >>
    IN  {<<>>, <<so>>, <<un>>, <<so, un>>, <<un, x7>>, <<so, x7>>, <<so, x2>>, <<x1>>}

\* the next-directory pointers of the input files
InputNexts == {0, 258}

\* an input file: the 8-byte header and a directory at offset 8
InputFile(prefix, recs, next) ==
    PrefixBytes(prefix) \o o16(prefix, 42) \o o32(prefix, 8)
    \o o16(prefix, Len(recs))
    \o Concat([k \in 1..Len(recs) |->
           Record(prefix, recs[k][1], recs[k][2], recs[k][3], recs[k][4])])
    \o o32(prefix, next)

\* the byte-order marker of two header bytes
PrefixOf(bytes) ==
    IF bytes = <<73, 73>> THEN II ELSE IF bytes = <<77, 77>> THEN MM ELSE "??"

Result(op, err) == [op |-> op, err |-> err, ret |-> None, at |-> <<>>]

NoDirectory == [prefix |-> "", tagdata |-> <<>>, tagtype |-> <<>>, next |-> None]

IfdInit ==
    /\ pc = "init"
    /\ ifd = NoDirectory
    /\ ifd2 = NoDirectory
    /\ \/ \E s \in 0..MaxStart : fp = Stream(<<>>, s)
       \/ \E prefix \in {II, MM}, recs \in InputRecords, next \in InputNexts :
             fp = Stream(InputFile(prefix, recs, next), 0)
    /\ start = fp.pos
    /\ ret = Result("", "")

\* ImageFileDirectory(prefix); for an input file the prefix is read from its
\* header and the stream is left at the directory the header points to
Construct(prefix) ==
    /\ pc = "init"
    /\ fp.buf # <<>> => prefix = PrefixOf(ReadData(fp, 2))
    /\ LET r == ImageFileDirectory(prefix)
       IN  /\ ret' = Result("init", r.err)
           /\ ifd' = IF r.err = "" THEN r.val ELSE ifd
           /\ pc' = IF r.err # "" THEN "raised"
                    ELSE IF fp.buf = <<>> THEN "build" ELSE "file"
    /\ fp' = IF fp.buf = <<>> THEN fp ELSE Seek(fp, 8)
    /\ UNCHANGED <<start, ifd2>>

\* ifd.load(fp) on the input file
LoadFile ==
    /\ pc = "file"
    /\ LET r == load(ifd, fp)
       IN  /\ ifd' = r.ifd
           /\ fp' = r.fp
           /\ ret' = Result("load", r.err)
           /\ pc' = IF r.err = "" THEN "edit" ELSE "raised"
    /\ start' = fp.pos
    /\ UNCHANGED ifd2

\* ifd.tagtype[tag] = typ
SetTagType(tag, typ) ==
    /\ pc \in {"build", "edit"}
    /\ tag \notin DOMAIN ifd.tagtype
    /\ Cardinality(DOMAIN ifd.tagtype) < MaxTags
    /\ ifd' = [ifd EXCEPT !.tagtype = Put(@, tag, typ)]
    /\ ret' = Result("settype", "")
    /\ UNCHANGED <<pc, fp, start, ifd2>>

\* ifd[tag] = value
SetItem(tag, value) ==
    /\ pc \in {"build", "edit"}
    /\ LET r == setitem(ifd, tag, value)
       IN  /\ ifd' = r.ifd
           /\ ret' = Result("setitem", r.err)
    /\ UNCHANGED <<pc, fp, start, ifd2>>

\* ifd.save(fp) at the stream's position
Save ==
    /\ pc \in {"build", "edit"}
    /\ LET r == save(ifd, fp)
       IN  /\ fp' = r.fp
           /\ ret' = [op |-> "save", err |-> r.err, ret |-> r.ret, at |-> r.at]
           /\ pc' = IF r.err = "" THEN "saved" ELSE "raised"
    /\ start' = fp.pos
    /\ UNCHANGED <<ifd, ifd2>>

\* fp.seek(start): back to the saved directory
SeekStart ==
    /\ pc = "saved"
    /\ fp' = Seek(fp, start)
    /\ pc' = "sought"
    /\ ret' = Result("seek", "")
    /\ UNCHANGED <<ifd, start, ifd2>>

\* ImageFileDirectory(prefix).load(fp) on the saved directory
Reload ==
    /\ pc = "sought"
    /\ LET r == load(reset(ifd), fp)
       IN  /\ ifd2' = r.ifd
           /\ fp' = r.fp
           /\ ret' = Result("reload", r.err)
           /\ pc' = IF r.err = "" THEN "reloaded" ELSE "raised"
    /\ UNCHANGED <<ifd, start>>

(***************************************************************************)
(* M9DNG: [prefix, preview_ifd, main_ifd, exif_ifd, preview_strip,         *)
(* main_strip]; its source stream self.fp is the variable src.  The        *)
(* pointer and strip tags of the input files have integer types, so the    *)
(* [0] of their decoded value is an integer.                               *)
(***************************************************************************)
\* the four-byte signatures: "MM\000\052", "II\052\000", "II\xBC\000"
PREFIXES == {<<77, 77, 0, 42>>, <<73, 73, 42, 0>>, <<73, 73, 188, 0>>}

NoDng == [prefix |-> "", preview_ifd |-> NoDirectory, main_ifd |-> NoDirectory,
          exif_ifd |-> NoDirectory, preview_strip |-> <<>>, main_strip |-> <<>>]

\* value[0] of a decoded value
item0(dec) ==
    IF dec.err # "" THEN dec
    ELSE IF dec.val.items = <<>> THEN Raise("IndexError")
    ELSE Ok(dec.val.items[1])

\* the header: ifh = self.fp.read(8), the signature and the byte order
init_header(f0) ==
    Only({ IF Slice(ifh, 0, 4) \notin PREFIXES
           THEN [err |-> "SyntaxError", fp |-> f1, dng |-> NoDng, ifh |-> ifh]
           ELSE IF PrefixOf(Slice(ifh, 0, 2)) \notin {MM, II}
           THEN [err |-> "SyntaxError", fp |-> f1, dng |-> NoDng, ifh |-> ifh]
           ELSE [err |-> "", fp |-> f1, ifh |-> ifh,
                 dng |-> [NoDng EXCEPT !.prefix = PrefixOf(Slice(ifh, 0, 2))]] :
           ifh \in {ReadData(f0, 8)}, f1 \in {ReadAdv(f0, 8)} })

\* self.fp.seek(o); ifd = ImageFileDirectory(self.prefix); ifd.load(self.fp),
\* o the result of a pointer read that may have raised
init_load(m, o) ==
    IF o.err # "" THEN [err |-> o.err, ifd |-> NoDirectory, fp |-> m.fp]
    ELSE load(ImageFileDirectory(m.dng.prefix).val, Seek(m.fp, o.val))

\* the preview directory, at the offset in header bytes 4-8
init_preview(m0) ==
    Only({ IF m.err # "" THEN m
           ELSE Only({ [m EXCEPT !.err = r.err, !.fp = r.fp,
                                 !.dng.preview_ifd = r.ifd] :
                       r \in {init_load(m, i32(m.dng.prefix, m.ifh, 4))} }) :
           m \in {m0} })

\* the main directory, at self.preview_ifd[SUBIFDS][0]
init_main(m0) ==
    Only({ IF m.err # "" THEN m
           ELSE Only({ [m EXCEPT !.err = r.err, !.fp = r.fp,
                                 !.dng.main_ifd = r.ifd] :
                       r \in {init_load(m, item0(getitem(m.dng.preview_ifd, SUBIFDS)))} }) :
           m \in {m0} })

\* the EXIF directory, at self.preview_ifd[EXIFIFD][0]
init_exif(m0) ==
    Only({ IF m.err # "" THEN m
           ELSE Only({ [m EXCEPT !.err = r.err, !.fp = r.fp,
                                 !.dng.exif_ifd = r.ifd] :
                       r \in {init_load(m, item0(getitem(m.dng.preview_ifd, EXIFIFD)))} }) :
           m \in {m0} })

\* (ifd[STRIPOFFSETS][0], ifd[STRIPBYTECOUNTS][0])
strip_of(d) ==
    Only({ IF o.err # "" THEN o ELSE IF n.err # "" THEN n
           ELSE Ok(<<o.val, n.val>>) :
           o \in {item0(getitem(d, STRIPOFFSETS))},
           n \in {item0(getitem(d, STRIPBYTECOUNTS))} })

\* the two strip descriptors
init_strips(m0) ==
    Only({ IF m.err # "" THEN m
           ELSE Only({ IF ps.err # "" THEN [m EXCEPT !.err = ps.err]
                       ELSE IF ms.err # "" THEN [m EXCEPT !.err = ms.err]
                       ELSE [m EXCEPT !.dng.preview_strip = ps.val,
                                      !.dng.main_strip = ms.val] :
                       ps \in {strip_of(m.dng.preview_ifd)},
                       ms \in {strip_of(m.dng.main_ifd)} }) :
           m \in {m0} })

\* M9DNG(fp): the result is [err, dng, fp]
M9DNG_init(f0) ==
    Only({ [err |-> m.err, fp |-> m.fp,
            dng |-> IF m.err = "" THEN m.dng ELSE NoDng] :
           m \in {init_strips(init_exif(init_main(init_preview(init_header(f0)))))} })

(***************************************************************************)
(* M9DNG.save.  The steps work on a record [err, dng, src, out] and the    *)
(* destination offsets; a step that finds err set does nothing.            *)
(***************************************************************************)
\* the rounding left out: the offset as it is
align_even_dropped(offset) == offset

\* if offset % 2: offset += 1
align_even(offset) == IF offset % 2 = 1 THEN offset + 1 ELSE offset

\* the destination offsets of the strips and of the EXIF directory
save_offsets(self, sfp, ofp) ==
    [err |-> "", dng |-> self, src |-> sfp, out |-> ofp,
     dest_preview_offset |-> 8,
     dest_main_offset |-> 8 + self.preview_strip[2],
     dest_exififd_offset |-> align_even(8 + self.preview_strip[2] + self.main_strip[2]),
     dest_subifd1_offset |-> None,
     dest_ifd0_offset |-> None]

\* ifd[tag] = (offset, ) on one directory of the step record
save_set(s, which, tag, offset) ==
    IF s.err # "" THEN s
    ELSE Only({ IF which = "preview"
                THEN [s EXCEPT !.err = r.err, !.dng.preview_ifd = r.ifd]
                ELSE [s EXCEPT !.err = r.err, !.dng.main_ifd = r.ifd] :
                r \in {setitem(IF which = "preview" THEN s.dng.preview_ifd
                               ELSE s.dng.main_ifd, tag, Tuple(<<offset>>))} })

\* the pointer tags that are known before anything is written
save_pointers(s0) ==
    Only({ Only({ Only({ save_set(s2, "main", STRIPOFFSETS, s.dest_main_offset) :
                         s2 \in {save_set(s1, "preview", EXIFIFD, s.dest_exififd_offset)} }) :
                  s1 \in {save_set(s, "preview", STRIPOFFSETS, s.dest_preview_offset)} }) :
           s \in {s0} })

\* the header, with the offset of IFD 0 left blank
save_header(s0) ==
    Only({ IF s.err # "" THEN s
           ELSE [s EXCEPT !.out = Write(s.out, PrefixBytes(s.dng.prefix)
                                   \o o16(s.dng.prefix, 42) \o <<0, 0, 0, 0>>)] :
           s \in {s0} })

\* one strip copied from the source to the destination offset
copy_strip(s, strip, dest) ==
    Only({ [s EXCEPT !.src = ReadAdv(f, strip[2]),
                     !.out = Write(Seek(s.out, dest), ReadData(f, strip[2]))] :
           f \in {Seek(s.src, strip[1])} })

save_strips(s0) ==
    Only({ IF s.err # "" THEN s
           ELSE Only({ copy_strip(s1, s.dng.main_strip, s.dest_main_offset) :
                       s1 \in {copy_strip(s, s.dng.preview_strip,
                                          s.dest_preview_offset)} }) :
           s \in {s0} })

\* the EXIF directory; its end, made even, is where SubIFD 1 goes
save_exif(s0) ==
    Only({ IF s.err # "" THEN s
           ELSE Only({ [s EXCEPT !.err = r.err, !.out = r.fp,
                          !.dest_subifd1_offset =
                              IF r.err = "" THEN align_even(r.ret) ELSE None] :
                       r \in {save(s.dng.exif_ifd,
                                   Seek(s.out, s.dest_exififd_offset))} }) :
           s \in {s0} })

\* the main directory; its end, made even, is where IFD 0 goes
save_main(s0) ==
    Only({ IF s.err # "" THEN s
           ELSE Only({ [s EXCEPT !.err = r.err, !.out = r.fp,
                          !.dest_ifd0_offset =
                              IF r.err = "" THEN align_even(r.ret) ELSE None] :
                       r \in {save(s.dng.main_ifd,
                                   Seek(s.out, s.dest_subifd1_offset))} }) :
           s \in {s0} })

\* IFD 0, after its SubIFDs tag is set to the offset of the main directory
save_preview(s0) ==
    Only({ IF s.err # "" THEN s
           ELSE Only({ IF s1.err # "" THEN s1
                       ELSE Only({ [s1 EXCEPT !.err = r.err, !.out = r.fp] :
                                   r \in {save(s1.dng.preview_ifd,
                                               Seek(s1.out, s1.dest_ifd0_offset))} }) :
                       s1 \in {save_set(s, "preview", SUBIFDS, s.dest_subifd1_offset)} }) :
           s \in {s0} })

\* the header's pointer to IFD 0
save_patch(s0) ==
    Only({ IF s.err # "" THEN s
           ELSE [s EXCEPT !.out = Write(Seek(s.out, 4),
                                        o32(s.dng.prefix, s.dest_ifd0_offset))] :
           s \in {s0} })

\* self.save(fp): the result is the last step record
M9DNG_save(self, sfp, ofp) ==
    save_patch(save_preview(save_main(save_exif(save_strips(save_header(
        save_pointers(save_offsets(self, sfp, ofp))))))))

(***************************************************************************)
(* The input files of the layout engine, in the M9's layout: the header,   *)
(* the main directory, the two strips, the preview directory, the EXIF     *)
(* directory.                                                              *)
(***************************************************************************)
\* the signatures of the input files: the three of PREFIXES and BigTIFF's
Signatures == PREFIXES \cup {<<73, 73, 43, 0>>}

PreviewBytes == <<201, 202, 203, 204>>

MainBytes == <<211, 212, 213, 214>>

\* the value field of one integer of type SHORT (3) or LONG (4)
InlineInt(prefix, typ, v) ==
    IF typ = 3 THEN o16(prefix, v) \o <<0, 0>> ELSE o32(prefix, v)

\* pl, ml: the strip lengths; nso: the number of strip offsets of the
\* preview directory; ptyp: the type of the strip tags; make, xmp: whether the
\* main and the preview directory hold a tag with an external payload; exif:
\* the content of the EXIF directory
DngParams ==
    [sig : Signatures, pl : 0..MaxStrip, ml : 0..MaxStrip, nso : {1, 2},
     ptyp : {3, 4}, make : BOOLEAN, xmp : BOOLEAN, exif : {"none", "inline", "two"}]

DngFile(p) ==
    LET prefix == PrefixOf(SubSeq(p.sig, 1, 2))
        nmain  == IF p.make THEN 3 ELSE 2
        mext   == 8 + 2 + 12 * nmain + 4
        s1     == IF p.make THEN mext + 6 ELSE mext
        s2     == s1 + p.pl
        p0     == IF (s2 + p.ml) % 2 = 1 THEN s2 + p.ml + 1 ELSE s2 + p.ml
        nprev  == IF p.xmp THEN 5 ELSE 4
        pext   == p0 + 2 + 12 * nprev + 4
        x0     == IF p.xmp THEN pext + 6 ELSE pext
        xext   == x0 + 2 + 12 * 2 + 4
        main   == o16(prefix, nmain)
                  \o (IF p.make THEN Record(prefix, 271, 2, 5, o32(prefix, mext))
                      ELSE <<>>)
                  \o Record(prefix, STRIPOFFSETS, p.ptyp, 1, InlineInt(prefix, p.ptyp, s2))
                  \o Record(prefix, STRIPBYTECOUNTS, p.ptyp, 1, InlineInt(prefix, p.ptyp, p.ml))
                  \o o32(prefix, 0)
                  \o (IF p.make THEN <<76, 101, 105, 99, 0, 0>> ELSE <<>>)
        prev   == o16(prefix, nprev)
                  \o (IF p.nso = 1
                      THEN Record(prefix, STRIPOFFSETS, p.ptyp, 1,
                                  InlineInt(prefix, p.ptyp, s1))
                      ELSE Record(prefix, STRIPOFFSETS, 3, 2,
                                  o16(prefix, s1) \o o16(prefix, s2)))
                  \o Record(prefix, STRIPBYTECOUNTS, p.ptyp, 1,
                            InlineInt(prefix, p.ptyp, p.pl))
                  \o Record(prefix, SUBIFDS, 4, 1, o32(prefix, 8))
                  \o (IF p.xmp THEN Record(prefix, XMP, 7, 6, o32(prefix, pext))
                      ELSE <<>>)
                  \o Record(prefix, EXIFIFD, 4, 1, o32(prefix, x0))
                  \o o32(prefix, 0)
                  \o (IF p.xmp THEN <<60, 120, 109, 112, 47, 62>> ELSE <<>>)
        exif   == CASE p.exif = "none" -> o16(prefix, 0) \o o32(prefix, 0)
                    [] p.exif = "inline" ->
                         o16(prefix, 1)
                         \o Record(prefix, 36864, 7, 4, <<48, 50, 50, 49>>)
                         \o o32(prefix, 0)
                    [] OTHER ->
                         o16(prefix, 2)
                         \o Record(prefix, 33434, 5, 1, o32(prefix, xext))
                         \o Record(prefix, 42033, 2, 5, o32(prefix, xext + 8))
                         \o o32(prefix, 0)
                         \o o32(prefix, 1) \o o32(prefix, 60)
                         \o <<49, 50, 51, 52, 0, 0>>
    IN  p.sig \o o32(prefix, p0) \o main
        \o SubSeq(PreviewBytes, 1, p.pl) \o SubSeq(MainBytes, 1, p.ml)
        \o Zeros(p0 - (s2 + p.ml)) \o prev \o exif

(***************************************************************************)
(* The layout engine as a state machine: an M9DNG is made from an input    *)
(* file, a tag of one of its directories may be given a new value, and it  *)
(* is saved to an empty destination stream.                                *)
(***************************************************************************)
\* the tags a client edits
EditTags == {271, XMP, 36864, 42033}

DngInit ==
    /\ dpc = "file"
    /\ \E p \in DngParams : src = Stream(DngFile(p), 0)
    /\ dng = NoDng
    /\ out = Stream(<<>>, 0)
    /\ dret = Result("", "")

\* dng = M9DNG(src)
DngConstruct ==
    /\ dpc = "file"
    /\ \E r \in {M9DNG_init(src)} :
          /\ dng' = r.dng
          /\ src' = r.fp
          /\ dret' = Result("init", r.err)
          /\ dpc' = IF r.err = "" THEN "open" ELSE "raised"
    /\ out' = out

\* dng.<which>_ifd[tag] = value
DngEdit(which, tag, value) ==
    /\ dpc = "open"
    /\ \E r \in {setitem(CASE which = "preview" -> dng.preview_ifd
                           [] which = "main" -> dng.main_ifd
                           [] OTHER -> dng.exif_ifd, tag, value)} :
          /\ dng' = CASE which = "preview" -> [dng EXCEPT !.preview_ifd = r.ifd]
                      [] which = "main" -> [dng EXCEPT !.main_ifd = r.ifd]
                      [] OTHER -> [dng EXCEPT !.exif_ifd = r.ifd]
          /\ dret' = Result("setitem", r.err)
    /\ dpc' = "edited"
    /\ UNCHANGED <<src, out>>

\* dng.save(out); the offsets at which the three directories were
\* serialized are kept in the result
DngSave ==
    /\ dpc \in {"open", "edited"}
    /\ \E s \in {M9DNG_save(dng, src, out)} :
          /\ dng' = s.dng
          /\ src' = s.src
          /\ out' = s.out
          /\ dret' = [op |-> "save", err |-> s.err, ret |-> None,
                      at |-> [exif |-> s.dest_exififd_offset,
                              main |-> s.dest_subifd1_offset,
                              preview |-> s.dest_ifd0_offset]]
          /\ dpc' = IF s.err = "" THEN "saved" ELSE "raised"

DngIdle ==
    /\ dpc = "idle" /\ src = Stream(<<>>, 0) /\ out = Stream(<<>>, 0)
    /\ dng = NoDng /\ dret = Result("", "")

IfdIdle ==
    /\ pc = "idle" /\ ifd = NoDirectory /\ ifd2 = NoDirectory
    /\ fp = Stream(<<>>, 0) /\ start = 0 /\ ret = Result("", "")

Init == CodecIdle /\ IfdInit /\ DngIdle

Next ==
    \/ \E prefix \in {II, MM, "XX"} :
          Construct(prefix) /\ UNCHANGED <<codecvars, dngvars>>
    \/ LoadFile /\ UNCHANGED <<codecvars, dngvars>>
    \/ \E tag \in BuildTags, typ \in BuildTypes :
          SetTagType(tag, typ) /\ UNCHANGED <<codecvars, dngvars>>
    \/ \E tag \in BuildTags :
          \E value \in (IF tag \in DOMAIN ifd.tagtype
                        THEN ValuesOf(ifd.tagtype[tag]) ELSE {Tuple(<<7>>)}) :
             SetItem(tag, value) /\ UNCHANGED <<codecvars, dngvars>>
    \/ Save /\ UNCHANGED <<codecvars, dngvars>>
    \/ SeekStart /\ UNCHANGED <<codecvars, dngvars>>
    \/ Reload /\ UNCHANGED <<codecvars, dngvars>>

Spec == Init /\ [][Next]_vars

InitCodec == CodecInit /\ IfdIdle /\ DngIdle

NextCodec ==
    \/ Encode /\ UNCHANGED <<ifdvars, dngvars>>
    \/ ReadPayload /\ UNCHANGED <<ifdvars, dngvars>>
    \/ Decode /\ UNCHANGED <<ifdvars, dngvars>>

SpecCodec == InitCodec /\ [][NextCodec]_vars

(***************************************************************************)
(* The directory as it is on disk, read from the bytes of the stream       *)
(* (the properties below compare it with what load and save did).          *)
(***************************************************************************)
\* the unsigned integer of the w bytes at offset o, in the byte order of prefix
DiskInt(buf, prefix, o, w) == UnpackU(EndianOf(prefix), w, SubSeq(buf, o + 1, o + w))

DiskCount(buf, prefix, s) == DiskInt(buf, prefix, s, 2)

\* the k-th 12-byte record of the directory at offset s
DiskRecord(buf, prefix, s, k) ==
    LET o == s + 2 + 12 * (k - 1)
    IN  [tag |-> DiskInt(buf, prefix, o, 2),
         typ |-> DiskInt(buf, prefix, o + 2, 2),
         n   |-> DiskInt(buf, prefix, o + 4, 4),
         raw |-> SubSeq(buf, o + 9, o + 12)]

DiskRecords(buf, prefix, s) ==
    [k \in 1..DiskCount(buf, prefix, s) |-> DiskRecord(buf, prefix, s, k)]

\* the type in the on-disk record of a tag
DiskType(buf, prefix, s, tag) ==
    LET recs == DiskRecords(buf, prefix, s)
        k == CHOOSE j \in 1..Len(recs) : recs[j].tag = tag
    IN  recs[k].typ

\* the tags whose on-disk type is one of the 13 field types
DiskSupported(buf, prefix, s) ==
    LET recs == DiskRecords(buf, prefix, s)
    IN  {recs[k].tag : k \in {j \in 1..Len(recs) : recs[j].typ \in 1..13}}

\* the 32-bit value of the 4 bytes that follow the last record
DiskNext(buf, prefix, s) ==
    DiskInt(buf, prefix, s + 2 + 12 * DiskCount(buf, prefix, s), 4)

\* the directory the last load filled
Loaded == IF ret.op = "load" THEN ifd ELSE ifd2

(***************************************************************************)
(* C1: a directory saved to a stream and loaded back from its start offset *)
(* has the same tags with the same decoded values; an entry of an          *)
(* unsupported on-disk type is absent from the loaded directory and the    *)
(* entries around it are loaded.                                           *)
(***************************************************************************)
C1_SaveLoadRoundTrip ==
    /\ ret.op = "reload" =>
          /\ ret.err = ""
          /\ keys(ifd2) = keys(ifd)
          /\ \A tag \in keys(ifd) :
                /\ getitem(ifd2, tag).err = ""
                /\ SameValue(getitem(ifd2, tag).val, getitem(ifd, tag).val)
    /\ (ret.op = "load" /\ ret.err = "") =>
          keys(ifd) = DiskSupported(fp.buf, ifd.prefix, start)

(***************************************************************************)
(* C3: in the saved directory a payload of 4 bytes is the record's value   *)
(* field, a shorter one is there followed by zero bytes, and a longer one  *)
(* is written outside the records at the even offset the value field       *)
(* holds, wherever the directory starts.                                   *)
(***************************************************************************)
C3_InlineOrAlignedOffset ==
    (ret.op = "save" /\ ret.err = "") =>
        \A k \in 1..DiskCount(fp.buf, ifd.prefix, start) :
            LET rec  == DiskRecord(fp.buf, ifd.prefix, start, k)
                data == ifd.tagdata[rec.tag]
                off  == UnpackU(EndianOf(ifd.prefix), 4, rec.raw)
            IN  /\ Len(data) = 4 => rec.raw = data
                /\ Len(data) < 4 => rec.raw = data \o Zeros(4 - Len(data))
                /\ Len(data) > 4 =>
                      /\ rec.tag \in DOMAIN ret.at
                      /\ off = ret.at[rec.tag]
                      /\ SubSeq(fp.buf, off + 1, off + Len(data)) = data
                      /\ off % 2 = 0

(***************************************************************************)
(* C4: the value save returns is the stream position after the last byte   *)
(* it wrote, for every start position of the directory.                    *)
(***************************************************************************)
C4_ReturnIsEndOfWrite ==
    (ret.op = "save" /\ ret.err = "") => ret.ret = Tell(fp)

(***************************************************************************)
(* C8: after load the stored type of tag 700 is 1 if its on-disk type was  *)
(* 7, and every other stored type, that of tag 700 with another on-disk    *)
(* type included, is the on-disk type.                                     *)
(***************************************************************************)
C8_OnlyUndefinedXmpRetyped ==
    (ret.op \in {"load", "reload"} /\ ret.err = "") =>
        \A tag \in DOMAIN Loaded.tagtype :
            LET disk == DiskType(fp.buf, Loaded.prefix, start, tag)
            IN  Loaded.tagtype[tag] = IF tag = XMP /\ disk = 7 THEN 1 ELSE disk

(***************************************************************************)
(* C10: in either byte order load completes after reading the entries and  *)
(* leaves next equal to the 32-bit value of the 4 bytes after the last     *)
(* record (loads whose entries are readable: an input file, or a directory *)
(* saved at an even offset).                                               *)
(***************************************************************************)
C10_NextPointerRead ==
    (ret.op = "load" \/ (ret.op = "reload" /\ start % 2 = 0)) =>
        /\ ret.err = ""
        /\ Loaded.next = DiskNext(fp.buf, Loaded.prefix, start)

(***************************************************************************)
(* C7: for each type with an encoder and a decoder and either byte order,  *)
(* decoding the encoding of a value of valid shape returns the value.      *)
(***************************************************************************)
C7_DecodeEncode ==
    (cpc \in {"decoded", "raised"} /\ cin.typ \in EncodableTypes) =>
        /\ cenc.err = ""
        /\ cdec.err = ""
        /\ SameValue(cdec.val, cin.value)

(***************************************************************************)
(* C9: a rational payload of n elements decodes to exactly n pairs, the    *)
(* i-th made of the (2i-1)-th and 2i-th 32-bit integers of the payload.    *)
(***************************************************************************)
C9_RationalPairs ==
    (cpc = "decoded" /\ cin.typ \in {5, 10}) =>
        LET l == UnpackAll(cin.endian, 4, cin.typ = 10, cenc.val).val
            n == Len(cenc.val) \div 8
        IN  /\ cdec.val.kind = "pairs"
            /\ cdec.val.items = [i \in 1..n |-> <<l[2 * i - 1], l[2 * i]>>]

\* the payload of an on-disk record: the first bytes of its value field when
\* they fit in 4 bytes, else the bytes at the offset its value field holds
DiskPayload(buf, prefix, rec) ==
    LET size == rec.n * load_dispatch_size[rec.typ]
    IN  IF size <= 4 THEN SubSeq(rec.raw, 1, size)
        ELSE LET o == UnpackU(EndianOf(prefix), 4, rec.raw)
             IN  SubSeq(buf, o + 1, o + size)

\* the on-disk record of a tag of the directory at offset s
DiskTag(buf, prefix, s, tag) ==
    LET recs == DiskRecords(buf, prefix, s)
    IN  recs[CHOOSE j \in 1..Len(recs) : recs[j].tag = tag]

\* the first element of an on-disk SHORT or LONG tag
DiskTagInt(buf, prefix, s, tag) ==
    LET rec == DiskTag(buf, prefix, s, tag)
    IN  UnpackU(EndianOf(prefix), IF rec.typ = 3 THEN 2 ELSE 4,
                SubSeq(DiskPayload(buf, prefix, rec), 1, IF rec.typ = 3 THEN 2 ELSE 4))

\* the directory at offset s holds exactly the tags of d, in ascending
\* order, each with d's type and d's payload
DiskDirIs(buf, prefix, s, d) ==
    LET recs == DiskRecords(buf, prefix, s)
    IN  /\ Len(buf) >= s + 2 + 12 * Cardinality(DOMAIN d.tagtype) + 4
        /\ Len(recs) = Cardinality(DOMAIN d.tagtype)
        /\ {recs[k].tag : k \in 1..Len(recs)} = DOMAIN d.tagtype
        /\ \A k \in 1..Len(recs) :
              /\ k > 1 => recs[k - 1].tag < recs[k].tag
              /\ recs[k].typ = d.tagtype[recs[k].tag]
              /\ DiskPayload(buf, prefix, recs[k]) = d.tagdata[recs[k].tag]

\* the byte order of the source file, and its two strips as its own
\* directories describe them
SrcPrefix == PrefixOf(SubSeq(src.buf, 1, 2))

SrcPreviewDir == DiskInt(src.buf, SrcPrefix, 4, 4)

SrcMainDir == DiskTagInt(src.buf, SrcPrefix, SrcPreviewDir, SUBIFDS)

SrcStrip(s) ==
    LET o == DiskTagInt(src.buf, SrcPrefix, s, STRIPOFFSETS)
        n == DiskTagInt(src.buf, SrcPrefix, s, STRIPBYTECOUNTS)
    IN  SubSeq(src.buf, o + 1, o + n)

(***************************************************************************)
(* C2.  After M9DNG.save completes, every pointer of the output names the  *)
(* place where its target was written: header bytes 4-8 hold the offset at *)
(* which the preview directory was serialized, and the preview directory   *)
(* is there; its SubIFDs tag holds the offset at which the main directory  *)
(* was serialized, and the main directory is there; its ExifIFD tag holds  *)
(* the offset at which the EXIF directory was serialized, and the EXIF     *)
(* directory is there; the preview and main StripOffsets tags hold 8 and   *)
(* 8 + preview_length, and the bytes there are the source strips' bytes.   *)
(***************************************************************************)
C2_PointersNameTargets ==
    dpc = "saved" =>
        LET buf  == out.buf
            p    == dng.prefix
            ifd0 == DiskInt(buf, p, 4, 4)
            sub1 == DiskTagInt(buf, p, ifd0, SUBIFDS)
            exif == DiskTagInt(buf, p, ifd0, EXIFIFD)
            pl   == Len(SrcStrip(SrcPreviewDir))
            ml   == Len(SrcStrip(SrcMainDir))
        IN  /\ ifd0 = dret.at.preview
            /\ DiskDirIs(buf, p, ifd0, dng.preview_ifd)
            /\ sub1 = dret.at.main
            /\ DiskDirIs(buf, p, sub1, dng.main_ifd)
            /\ exif = dret.at.exif
            /\ DiskDirIs(buf, p, exif, dng.exif_ifd)
            /\ DiskTagInt(buf, p, ifd0, STRIPOFFSETS) = 8
            /\ DiskTagInt(buf, p, sub1, STRIPOFFSETS) = 8 + pl
            /\ SubSeq(buf, 9, 8 + pl) = SrcStrip(SrcPreviewDir)
            /\ SubSeq(buf, 9 + pl, 8 + pl + ml) = SrcStrip(SrcMainDir)

\* a save completed with strips of odd total length, an edited tag, and
\* external payloads in all three directories
C2_Witness ==
    /\ dpc = "saved"
    /\ (Len(SrcStrip(SrcPreviewDir)) + Len(SrcStrip(SrcMainDir))) % 2 = 1
    /\ Len(SrcStrip(SrcPreviewDir)) > 0
    /\ XMP \in DOMAIN dng.preview_ifd.tagtype
    /\ 271 \in DOMAIN dng.main_ifd.tagtype
    /\ 42033 \in DOMAIN dng.exif_ifd.tagtype
    /\ dng.exif_ifd.tagdata[42033] # <<49, 50, 51, 52, 0>>

(***************************************************************************)
(* C5.  Constructing an M9DNG from a stream in which the preview or the    *)
(* main directory's StripOffsets tag has more than one element fails with  *)
(* an error.                                                               *)
(***************************************************************************)
C5_MultiStripFails ==
    (/\ dret.op = "init"
     /\ \/ DiskTag(src.buf, SrcPrefix, SrcPreviewDir, STRIPOFFSETS).n > 1
        \/ DiskTag(src.buf, SrcPrefix, SrcMainDir, STRIPOFFSETS).n > 1)
    => dret.err # ""

(***************************************************************************)
(* C6.  Constructing an M9DNG passes the header check only when the first  *)
(* 4 bytes are "II", 42, 0 or "MM", 0, 42; every other prefix raises the   *)
(* format error before any directory is loaded.                            *)
(***************************************************************************)
C6_ClassicSignaturesOnly ==
    (/\ dret.op = "init"
     /\ SubSeq(src.buf, 1, 4) \notin {<<73, 73, 42, 0>>, <<77, 77, 0, 42>>})
    => /\ dret.err = "SyntaxError"
       /\ dng = NoDng

InitDNG == CodecIdle /\ IfdIdle /\ DngInit

NextDNG ==
    \/ DngConstruct /\ UNCHANGED <<codecvars, ifdvars>>
    \/ \E which \in {"preview", "main", "exif"} :
          \E tag \in EditTags \cap
                 DOMAIN (CASE which = "preview" -> dng.preview_ifd.tagtype
                           [] which = "main" -> dng.main_ifd.tagtype
                           [] OTHER -> dng.exif_ifd.tagtype) :
             \E value \in ValuesOf(CASE which = "preview" -> dng.preview_ifd.tagtype[tag]
                                     [] which = "main" -> dng.main_ifd.tagtype[tag]
                                     [] OTHER -> dng.exif_ifd.tagtype[tag]) :
                DngEdit(which, tag, value) /\ UNCHANGED <<codecvars, ifdvars>>
    \/ DngSave /\ UNCHANGED <<codecvars, ifdvars>>

SpecDNG == InitDNG /\ [][NextDNG]_vars

====
